---- MODULE Spec2Model ----
(***************************************************************************)
(* napstir: a batch front end for yt-dlp.  Two revisions of the pipeline   *)
(* live in the repository: main.py (classification in subprocesses, all    *)
(* resolutions after all classifications, engine run as a subprocess) and  *)
(* cli.py (classification, construction and resolution one entry at a      *)
(* time, engine run in process through sanitize_args).  The variable prog   *)
(* says which of the two a behaviour is a run of.                          *)
(*                                                                         *)
(* Strings are sequences of one-character strings, so that lower(),        *)
(* startswith(), slicing, split() and the substring test are computed.     *)
(***************************************************************************)
EXTENDS Integers, Sequences, FiniteSets, TLC

VARIABLES prog, file, output_dir, verbose, simulate, file_lines, urls,
          extractor_configs, aliased_extractors, metadatas, extractors,
          prompts, invoked, reported, pc, idx, run, learned, saved,
          fn_in, fn_out, fn_pc

\* the variables of the parts taken alone.  SpecArgs, the argument functions:
\* the token list given, the list of results so far, the function applied.
\* SpecOutcome, the engine's run for one Record: what the engine does, the
\* Metadata and its report, the position in Cli.process and Cli.run.
fnvars == <<fn_in, fn_out, fn_pc>>

vars == <<prog, file, output_dir, verbose, simulate, file_lines, urls,
          extractor_configs, aliased_extractors, metadatas, extractors,
          prompts, invoked, reported, pc, idx, run, learned, saved,
          fn_in, fn_out, fn_pc>>

(***************************************************************************)
(* Bounds                                                                  *)
(***************************************************************************)
MaxLines == 2

MaxRuns == 2

MaxLen == 3

(***************************************************************************)
(* Python values                                                           *)
(***************************************************************************)
\* None: a sequence no string of one-character strings can equal.
None == <<"None">>

\* Python truthiness of a str | None value.
Truthy(s) == s # None /\ s # <<>>

\* str.lower() on one character of the alphabet in use.
LowerChar(c) ==
  CASE c = "W" -> "w"
    [] c = "X" -> "x"
    [] c = "Q" -> "q"
    [] c = "E" -> "e"
    [] c = "R" -> "r"
    [] c = "O" -> "o"
    [] c = "U" -> "u"
    [] OTHER -> c

\* str.lower()
Lower(s) == [i \in 1..Len(s) |-> LowerChar(s[i])]

\* str.startswith(p)
StartsWith(s, p) == Len(s) >= Len(p) /\ SubSeq(s, 1, Len(p)) = p

\* s[k:] with k counted from 0
SliceFrom(s, k) == SubSeq(s, k + 1, Len(s))

\* a in b for two strings
IsSubstring(a, b) ==
  \E i \in 0..(Len(b) - Len(a)) : SubSeq(b, i + 1, i + Len(a)) = a

\* x in xs for a list
InList(x, xs) == \E i \in 1..Len(xs) : xs[i] = x

\* code points of the characters that occur in profile ids
Ord(c) ==
  CASE c = "q" -> 113
    [] c = "w" -> 119
    [] c = "x" -> 120
    [] OTHER -> 0

\* a < b for two strings, as Python compares them
RECURSIVE StrLess(_, _)
StrLess(a, b) ==
  IF b = <<>> THEN FALSE
  ELSE IF a = <<>> THEN TRUE
  ELSE IF Ord(Head(a)) # Ord(Head(b)) THEN Ord(Head(a)) < Ord(Head(b))
  ELSE StrLess(Tail(a), Tail(b))

\* str.isspace() on one character
IsSpace(c) == c = " "

\* str.strip()
RECURSIVE LStrip(_)
LStrip(s) == IF s # <<>> /\ IsSpace(Head(s)) THEN LStrip(Tail(s)) ELSE s

RECURSIVE RStrip(_)
RStrip(s) ==
  IF s # <<>> /\ IsSpace(s[Len(s)]) THEN RStrip(SubSeq(s, 1, Len(s) - 1)) ELSE s

Strip(s) == RStrip(LStrip(s))

\* str.split(): the maximal runs of non-whitespace characters, in order
RECURSIVE SplitFrom(_, _, _)
SplitFrom(s, cur, acc) ==
  IF s = <<>> THEN (IF cur = <<>> THEN acc ELSE Append(acc, cur))
  ELSE IF IsSpace(Head(s))
       THEN SplitFrom(Tail(s), <<>>, IF cur = <<>> THEN acc ELSE Append(acc, cur))
       ELSE SplitFrom(Tail(s), Append(cur, Head(s)), acc)

Split(s) == SplitFrom(s, <<>>, <<>>)

(***************************************************************************)
(* Tokens                                                                  *)
(***************************************************************************)
ExtractAudio == <<"-","-","e","x","t","r","a","c","t","-","a","u","d","i","o">>

AudioFormat == <<"-","-","a","u","d","i","o","-","f","o","r","m","a","t">>

Paths == <<"-","-","p","a","t","h","s">>

Simulate == <<"-","-","s","i","m","u","l","a","t","e">>

DashV == <<"-","v">>

DashA == <<"-","a">>

DashAColon == <<"-","a",":">>

\* cli.py RESTRICTED_ARGS
RESTRICTED_ARGS ==
  << <<"-","h">>,
     <<"-","-","h","e","l","p">>,
     <<"-","U">>,
     <<"-","-","u","p","d","a","t","e","-","-","u","p","d","a","t","e","-","t","o">>,
     <<"-","-","n","o","-","i","g","n","o","r","e","-","n","o","-","f","o","r","m","a","t","s","-","e","r","r","o","r">>,
     <<"-","-","n","e","w","l","i","n","e">>,
     <<"-","-","n","o","-","p","r","o","g","r","e","s","s">>,
     <<"-","a">>,
     <<"-","-","b","a","t","c","h","-","f","i","l","e">> >>

(***************************************************************************)
(* utils.sanitize_args                                                     *)
(***************************************************************************)
RECURSIVE SanitizeFrom(_, _, _, _)
SanitizeFrom(raw_args, restricted_args, skip_args, sanitized_args) ==
  IF raw_args = <<>> THEN sanitized_args
  ELSE LET arg == Head(raw_args)
           skip == IF StartsWith(arg, <<"-">>) THEN FALSE ELSE skip_args
       IN IF skip THEN SanitizeFrom(Tail(raw_args), restricted_args, TRUE, sanitized_args)
          ELSE IF InList(arg, restricted_args)
               THEN SanitizeFrom(Tail(raw_args), restricted_args, TRUE, sanitized_args)
               ELSE SanitizeFrom(Tail(raw_args), restricted_args, FALSE,
                                 Append(sanitized_args, arg))

\* sanitize_args with a slip: a token that begins with "-" ends the skipping
\* and is kept without being looked up in the restricted table
RECURSIVE SanitizeFrom_DashKept(_, _, _, _)
SanitizeFrom_DashKept(raw_args, restricted_args, skip_args, sanitized_args) ==
  IF raw_args = <<>> THEN sanitized_args
  ELSE LET arg == Head(raw_args)
       IN IF skip_args /\ StartsWith(arg, <<"-">>)
          THEN SanitizeFrom_DashKept(Tail(raw_args), restricted_args, FALSE,
                                     Append(sanitized_args, arg))
          ELSE IF skip_args
          THEN SanitizeFrom_DashKept(Tail(raw_args), restricted_args, TRUE, sanitized_args)
          ELSE IF InList(arg, restricted_args)
          THEN SanitizeFrom_DashKept(Tail(raw_args), restricted_args, TRUE, sanitized_args)
          ELSE SanitizeFrom_DashKept(Tail(raw_args), restricted_args, FALSE,
                                     Append(sanitized_args, arg))

sanitize_args_DashKept(raw_args, restricted_args) ==
  SanitizeFrom_DashKept(raw_args, restricted_args, FALSE, <<>>)

\* sanitize_args with a slip: a restricted flag is removed alone, what
\* follows it is kept
sanitize_args_FlagOnly(raw_args, restricted_args) ==
  SelectSeq(raw_args, LAMBDA arg : ~InList(arg, restricted_args))

sanitize_args(raw_args, restricted_args) ==
  SanitizeFrom(raw_args, restricted_args, FALSE, <<>>)

(***************************************************************************)
(* Metadata.__post_init__: the audio shorthand                             *)
(***************************************************************************)
\* AudioTokens with a slip: the format sliced from the colon on (opt[2:])
AudioTokens_FromColon(opt) ==
  IF InList(":", opt) /\ SliceFrom(opt, 2) # <<>>
  THEN <<ExtractAudio, AudioFormat, SliceFrom(opt, 2)>>
  ELSE <<ExtractAudio>>

\* the tokens one shorthand token is rewritten to
AudioTokens(opt) ==
  IF InList(":", opt) /\ SliceFrom(opt, 3) # <<>>
  THEN <<ExtractAudio, AudioFormat, SliceFrom(opt, 3)>>
  ELSE <<ExtractAudio>>

IsAudioShorthand(opt) == opt = DashA \/ StartsWith(opt, DashAColon)

\* main.py: every other token is kept
RECURSIVE MainPostInit(_)
MainPostInit(options) ==
  IF options = <<>> THEN <<>>
  ELSE LET opt == Head(options)
       IN (IF IsAudioShorthand(opt) THEN AudioTokens(opt) ELSE <<opt>>)
          \o MainPostInit(Tail(options))

\* cli.py: the loop has no else branch, every other token is left out
RECURSIVE CliPostInit(_)
CliPostInit(args) ==
  IF args = <<>> THEN <<>>
  ELSE LET arg == Head(args)
       IN (IF IsAudioShorthand(arg) THEN AudioTokens(arg) ELSE <<>>)
          \o CliPostInit(Tail(args))

\* Metadata.id
MetadataId(extractor) == IF Truthy(extractor) THEN Lower(extractor) ELSE None

(***************************************************************************)
(* ExtractorConfig and Config                                              *)
(***************************************************************************)
ExtractorConfig(id, aliases, args) ==
  [id |-> Lower(id),
   aliases |-> [i \in 1..Len(aliases) |-> Lower(aliases[i])],
   args |-> args]

add_alias(cfg, alias) ==
  IF InList(alias, cfg.aliases) THEN cfg
  ELSE [cfg EXCEPT !.aliases = Append(@, alias)]

\* an insertion-ordered dict is a sequence of [key, val] with distinct keys
DictHas(d, k) == \E i \in 1..Len(d) : d[i].key = k

DictIndex(d, k) == CHOOSE i \in 1..Len(d) : d[i].key = k

DictGet(d, k) == d[DictIndex(d, k)].val

DictSet(d, k, v) ==
  IF DictHas(d, k) THEN [d EXCEPT ![DictIndex(d, k)].val = v]
  ELSE Append(d, [key |-> k, val |-> v])

DictKeys(d) == [i \in 1..Len(d) |-> d[i].key]

\* aliased_extractors is a dict whose order is never read: a function
MapSet(m, k, v) == [x \in DOMAIN m \cup {k} |-> IF x = k THEN v ELSE m[x]]

EmptyMap == [x \in {} |-> None]

RECURSIVE MapSetAll(_, _, _)
MapSetAll(m, ks, v) ==
  IF ks = <<>> THEN m ELSE MapSetAll(MapSet(m, Head(ks), v), Tail(ks), v)

ReservedIds == { <<"d","e","f","a","u","l","t">>, <<"g","l","o","b","a","l">> }

Default == <<"d","e","f","a","u","l","t">>

\* Config.__init__, the loop over doc["extractor"]: sections is the list of
\* named tables in file order, st the pair of dicts built so far
RECURSIVE LoadSections(_, _)
LoadSections(sections, st) ==
  IF sections = <<>> THEN st
  ELSE LET s   == Head(sections)
           cfg == ExtractorConfig(s.key, s.aliases, s.args)
       IN IF s.key \in ReservedIds THEN LoadSections(Tail(sections), st)
          ELSE LoadSections(Tail(sections),
                 [configs |-> DictSet(st.configs, Lower(s.key), cfg),
                  aliased |-> MapSetAll(st.aliased, cfg.aliases, cfg.id)])

ConfigInit(doc) == LoadSections(doc.sections, [configs |-> <<>>, aliased |-> EmptyMap])

\* sorted(values, key=attrgetter("id")): a stable insertion sort
RECURSIVE InsertSorted(_, _)
InsertSorted(sorted, cfg) ==
  IF sorted = <<>> THEN <<cfg>>
  ELSE IF StrLess(cfg.id, Head(sorted).id) THEN <<cfg>> \o sorted
  ELSE <<Head(sorted)>> \o InsertSorted(Tail(sorted), cfg)

RECURSIVE SortById(_, _)
SortById(cfgs, acc) ==
  IF cfgs = <<>> THEN acc ELSE SortById(Tail(cfgs), InsertSorted(acc, Head(cfgs)))

\* MainSave with a slip: the aliases are not written
MainSave_NoAliases(doc, configs) ==
  LET custom == SortById([i \in 1..Len(configs) |-> configs[i].val], <<>>)
  IN [global |-> doc.global,
      default |-> doc.default,
      sections |-> [i \in 1..Len(custom) |->
                      [key |-> custom[i].id,
                       aliases |-> <<>>,
                       args |-> custom[i].args]]]

\* main.py Config.save: a fresh document, the named profiles sorted by id,
\* each with its id, its aliases and its args
MainSave(doc, configs) ==
  LET custom == SortById([i \in 1..Len(configs) |-> configs[i].val], <<>>)
  IN [global |-> doc.global,
      default |-> doc.default,
      sections |-> [i \in 1..Len(custom) |->
                      [key |-> custom[i].id,
                       aliases |-> custom[i].aliases,
                       args |-> custom[i].args]]]

\* cli.py Config.save: the loaded document, with the aliases it does not list
\* yet appended to the table named by the profile's (lowercased) id.  A table
\* of that name that does not exist is a KeyError and nothing is written.
SectionHas(sections, k) == \E i \in 1..Len(sections) : sections[i].key = k

SectionIndex(sections, k) == CHOOSE i \in 1..Len(sections) : sections[i].key = k

NewAliases(toml_aliases, aliases) ==
  SelectSeq(aliases, LAMBDA a : ~InList(a, toml_aliases))

RECURSIVE CliSaveFrom(_, _)
CliSaveFrom(doc, cfgs) ==
  IF cfgs = <<>> THEN [ok |-> TRUE, doc |-> doc]
  ELSE LET extractor == Head(cfgs)
       IN IF extractor.aliases = <<>> THEN CliSaveFrom(doc, Tail(cfgs))
          ELSE IF ~SectionHas(doc.sections, extractor.id)
               THEN [ok |-> FALSE, doc |-> doc]
               ELSE LET i == SectionIndex(doc.sections, extractor.id)
                        toml_aliases == doc.sections[i].aliases
                    IN CliSaveFrom(
                         [doc EXCEPT !.sections[i].aliases =
                            toml_aliases \o NewAliases(toml_aliases, extractor.aliases)],
                         Tail(cfgs))

CliSave(doc, configs) == CliSaveFrom(doc, [i \in 1..Len(configs) |-> configs[i].val])

(***************************************************************************)
(* The extraction engine and the inputs of a run                           *)
(***************************************************************************)
ErrorPrefix == <<"E","R","R","O","R">>

\* what "yt-dlp --print extractor <url>" writes for each url of the model:
\* an extractor name, an error without and with an extractor tag, nothing
EngineOutput(url) ==
  CASE url = <<"1">> -> <<"W","x">>
    [] url = <<"2">> -> <<"x">>
    [] url = <<"3">> -> <<"E","R","R","O","R",":"," ","m">>
    [] url = <<"4">> -> <<"E","R","R","O","R",":"," ","[","W","x","]"," ","m">>
    [] url = <<"5">> -> <<>>
    [] url = <<"6">> -> <<"q","W">>
    [] OTHER -> <<"q">>

\* utils.determine_extractor as cli.py uses it: the extractor id of the url,
\* or None when the engine names none
determine_extractor(url) ==
  LET output == EngineOutput(url)
  IN IF output = <<>> \/ StartsWith(output, ErrorPrefix) THEN None ELSE output

\* the lines a batch file or the command line can hold
LinePool ==
  { <<"1">>,
    <<"-","a",":","m"," ","1">>,
    <<"-","h"," ","v"," ","-","f"," ","2">>,
    <<"3">>,
    <<"4">>,
    <<"5">>,
    <<"6">>,
    <<"#"," ","1">>,
    <<" ">> }

RECURSIVE SeqsUpTo(_, _)
SeqsUpTo(S, n) ==
  IF n = 0 THEN { <<>> }
  ELSE LET shorter == SeqsUpTo(S, n - 1)
       IN shorter \cup { Append(q, x) : q \in shorter, x \in S }

\* (file lines, direct arguments) of at most MaxLines lines together
Inputs ==
  { in \in SeqsUpTo(LinePool, MaxLines) \X SeqsUpTo(LinePool, MaxLines) :
      Len(in[1]) + Len(in[2]) <= MaxLines }

\* the named tables a config.toml can hold
KeyPool == { <<"w">>, <<"X">> }

AliasesPool == { <<>>, << <<"x">> >>, << <<"W","X">> >> }

ProfileArgs(key) == << <<"-","p">>, key >>

SectionPool ==
  { [key |-> k, aliases |-> a, args |-> ProfileArgs(k)] : k \in KeyPool, a \in AliasesPool }

DistinctKeys(sections) ==
  \A i, j \in 1..Len(sections) : sections[i].key = sections[j].key => i = j

Docs ==
  { [global |-> << <<"-","g">> >>, default |-> << <<"-","d">> >>, sections |-> ss] :
      ss \in { q \in SeqsUpTo(SectionPool, Cardinality(KeyPool)) : DistinctKeys(q) } }

\* -o, -v and -s of the command line
Flags ==
  { [output_dir |-> None, verbose |-> FALSE, simulate |-> FALSE],
    [output_dir |-> <<"o">>, verbose |-> TRUE, simulate |-> TRUE] }

(***************************************************************************)
(* Initial state: the program chosen, config.toml loaded by Config.__init__ *)
(***************************************************************************)
Init ==
  /\ prog \in {"main", "cli"}
  /\ file \in Docs
  /\ \E f \in Flags :
       /\ output_dir = f.output_dir
       /\ verbose = f.verbose
       /\ simulate = f.simulate
  /\ \E in \in Inputs : file_lines = in[1] /\ urls = in[2]
  /\ extractor_configs = ConfigInit(file).configs
  /\ aliased_extractors = ConfigInit(file).aliased
  /\ metadatas = <<>>
  /\ extractors = <<>>
  /\ prompts = <<>>
  /\ invoked = <<>>
  /\ reported = <<>>
  /\ pc = "start"
  /\ idx = 1
  /\ run = 1
  /\ learned = {}
  /\ saved = 0
  /\ fn_in = <<>>
  /\ fn_out = <<>>
  /\ fn_pc = "unused"

(***************************************************************************)
(* The substring loop of main.py Cli.get_extractors and of cli.py          *)
(* Cli.find_the_next_best_thing.  answers[j] is what the operator answers  *)
(* if asked about the j-th profile.  st.offered lists the prompts made.    *)
(***************************************************************************)
\* ConfirmLoop with the loop left at the first candidate declined
RECURSIVE ConfirmLoop_StopAtDecline(_, _, _, _)
ConfirmLoop_StopAtDecline(j, mid, answers, st) ==
  IF j > Len(st.configs) THEN st
  ELSE LET id == st.configs[j].key
       IN IF IsSubstring(id, mid)
          THEN LET asked == [st EXCEPT !.offered = Append(@, [cand |-> id, confirm |-> answers[j]])]
               IN IF answers[j]
                  THEN [asked EXCEPT
                          !.configs[j].val = add_alias(@, mid),
                          !.aliased = MapSet(@, mid, id),
                          !.chosen = id]
                  ELSE asked
          ELSE ConfirmLoop_StopAtDecline(j + 1, mid, answers, st)

RECURSIVE ConfirmLoop(_, _, _, _)
ConfirmLoop(j, mid, answers, st) ==
  IF j > Len(st.configs) THEN st
  ELSE LET id == st.configs[j].key
       IN IF IsSubstring(id, mid)
          THEN LET asked == [st EXCEPT !.offered = Append(@, [cand |-> id, confirm |-> answers[j]])]
               IN IF answers[j]
                  THEN [asked EXCEPT
                          !.configs[j].val = add_alias(@, mid),
                          !.aliased = MapSet(@, mid, id),
                          !.chosen = id]
                  ELSE ConfirmLoop(j + 1, mid, answers, asked)
          ELSE ConfirmLoop(j + 1, mid, answers, st)

LoopStart(configs, aliased) ==
  [configs |-> configs, aliased |-> aliased, offered |-> <<>>, chosen |-> None]

\* find_the_next_best_thing with a slip: the loop passes over the first
\* profile of the store
find_the_next_best_thing_SkipFirst(configs, aliased, mid, answers) ==
  ConfirmLoop(2, mid, answers, LoopStart(configs, aliased))

\* cli.py Cli.find_the_next_best_thing
find_the_next_best_thing(configs, aliased, mid, answers) ==
  ConfirmLoop(1, mid, answers, LoopStart(configs, aliased))

\* MainFuzzy without lines 227-228: no placeholder for a non-match
MainFuzzy_NoPlaceholder(configs, aliased, mid, answers) ==
  ConfirmLoop(1, mid, answers, LoopStart(configs, aliased))

\* MainFuzzy with a slip: the placeholder is also listed as an alias of the
\* first profile
MainFuzzy_PlaceholderListed(configs, aliased, mid, answers) ==
  LET st == ConfirmLoop(1, mid, answers, LoopStart(configs, aliased))
  IN IF mid \in DOMAIN st.aliased THEN st
     ELSE [st EXCEPT !.aliased = MapSet(@, mid, Default),
                     !.configs = IF @ = <<>> THEN @
                                 ELSE [@ EXCEPT ![1].val = add_alias(@, mid)]]

\* main.py Cli.get_extractors, lines 217-228: the loop, then the placeholder
MainFuzzy(configs, aliased, mid, answers) ==
  LET st == ConfirmLoop(1, mid, answers, LoopStart(configs, aliased))
  IN IF mid \in DOMAIN st.aliased THEN st
     ELSE [st EXCEPT !.aliased = MapSet(@, mid, Default)]

(***************************************************************************)
(* main.py: classification                                                 *)
(***************************************************************************)
\* the first loop of Cli.create_metadatas: the urls in line order and the
\* url-keyed option map; a line without a token is an IndexError
RECURSIVE MainParseLines(_, _)
MainParseLines(lines, st) ==
  IF lines = <<>> \/ ~st.ok THEN st
  ELSE LET line == Head(lines)
           parts == Split(line)
       IN IF line = <<>> \/ StartsWith(line, <<"#">>)
          THEN MainParseLines(Tail(lines), st)
          ELSE IF parts = <<>> THEN [st EXCEPT !.ok = FALSE]
          ELSE MainParseLines(Tail(lines),
                 [st EXCEPT !.tasks = Append(@, parts[Len(parts)]),
                            !.url_opts = MapSet(@, parts[Len(parts)],
                                                SubSeq(parts, 1, Len(parts) - 1))])

\* index of the first "]" at 0-based position >= from, or -1
FirstBracket(output, from) ==
  IF \E r \in (from + 1)..Len(output) : output[r] = "]"
  THEN (CHOOSE r \in (from + 1)..Len(output) :
          /\ output[r] = "]"
          /\ \A q \in (from + 1)..(r - 1) : output[q] # "]") - 1
  ELSE -1

\* ParseOutput with a slip: an error without a tag leaves no error text
ParseOutput_NoError(output) ==
  IF StartsWith(output, ErrorPrefix)
  THEN IF Len(output) <= 7
       THEN [ok |-> FALSE, extractor |-> None, error |-> None]
       ELSE IF output[8] # "["
       THEN [ok |-> TRUE, extractor |-> None, error |-> None]
       ELSE LET right_bracket == FirstBracket(output, 8)
            IN IF right_bracket < 0
               THEN [ok |-> FALSE, extractor |-> None, error |-> None]
               ELSE [ok |-> TRUE, extractor |-> SubSeq(output, 9, right_bracket),
                     error |-> None]
  ELSE [ok |-> TRUE, extractor |-> output, error |-> None]

\* the second loop of Cli.create_metadatas, for one result
ParseOutput(output) ==
  IF StartsWith(output, ErrorPrefix)
  THEN LET left_bracket == 7
       IN IF Len(output) <= left_bracket
          THEN [ok |-> FALSE, extractor |-> None, error |-> None]
          ELSE IF output[left_bracket + 1] # "["
          THEN [ok |-> TRUE, extractor |-> None, error |-> SliceFrom(output, left_bracket)]
          ELSE LET right_bracket == FirstBracket(output, left_bracket + 1)
               IN IF right_bracket < 0
                  THEN [ok |-> FALSE, extractor |-> None, error |-> None]
                  ELSE [ok |-> TRUE,
                        extractor |-> SubSeq(output, left_bracket + 2, right_bracket),
                        error |-> None]
  ELSE [ok |-> TRUE, extractor |-> output, error |-> None]

MainMetadata(url, src, options, extractor, error) ==
  [url |-> url, src |-> src, options |-> MainPostInit(options),
   extractor |-> extractor, error |-> error]

\* Cli.create_metadatas: one Metadata per task, with the options url_opts
\* holds for its url
MainCreateMetadatas(lines, src) ==
  LET parsed  == MainParseLines(lines, [ok |-> TRUE, tasks |-> <<>>, url_opts |-> EmptyMap])
      results == [i \in 1..Len(parsed.tasks) |-> ParseOutput(EngineOutput(parsed.tasks[i]))]
  IN IF ~parsed.ok \/ \E i \in 1..Len(results) : ~results[i].ok
     THEN [ok |-> FALSE, metadatas |-> <<>>]
     ELSE [ok |-> TRUE,
           metadatas |-> [i \in 1..Len(results) |->
                            MainMetadata(parsed.tasks[i], src,
                                         parsed.url_opts[parsed.tasks[i]],
                                         results[i].extractor, results[i].error)]]

StripAll(lines) == [i \in 1..Len(lines) |-> Strip(lines[i])]

\* Cli.get_metadatas
MainGetMetadatas ==
  /\ prog = "main" /\ pc = "start"
  /\ LET f == IF file_lines # <<>> THEN MainCreateMetadatas(StripAll(file_lines), "file")
              ELSE [ok |-> TRUE, metadatas |-> <<>>]
         a == IF urls # <<>> THEN MainCreateMetadatas(urls, "arg")
              ELSE [ok |-> TRUE, metadatas |-> <<>>]
     IN IF f.ok /\ a.ok
        THEN /\ metadatas' = f.metadatas \o a.metadatas
             /\ prompts' = [i \in 1..(Len(f.metadatas) + Len(a.metadatas)) |-> <<>>]
             /\ pc' = "resolve"
        ELSE /\ pc' = "crashed"
             /\ UNCHANGED <<metadatas, prompts>>
  /\ idx' = 1
  /\ UNCHANGED fnvars
  /\ UNCHANGED <<prog, file, output_dir, verbose, simulate, file_lines, urls,
                 extractor_configs, aliased_extractors, extractors, invoked,
                 reported, run, learned, saved>>

(***************************************************************************)
(* main.py: resolution, one iteration of the loop of Cli.get_extractors    *)
(***************************************************************************)
MainResolve ==
  /\ prog = "main" /\ pc = "resolve" /\ idx <= Len(metadatas)
  /\ LET metadata == metadatas[idx]
         mid == MetadataId(metadata.extractor)
     IN IF \/ Truthy(metadata.error)
           \/ DictHas(extractor_configs, mid)
           \/ mid \in DOMAIN aliased_extractors
        THEN /\ idx' = idx + 1
             /\ UNCHANGED <<extractor_configs, aliased_extractors, prompts, pc>>
        ELSE IF mid = None /\ extractor_configs # <<>>
        THEN \* "id in metadata.id" with metadata.id None: TypeError
             /\ pc' = "crashed"
             /\ UNCHANGED <<extractor_configs, aliased_extractors, prompts, idx>>
        ELSE \E answers \in [1..Len(extractor_configs) -> BOOLEAN] :
               LET st == MainFuzzy(extractor_configs, aliased_extractors, mid, answers)
               IN /\ extractor_configs' = st.configs
                  /\ aliased_extractors' = st.aliased
                  /\ prompts' = [prompts EXCEPT ![idx] = st.offered]
                  /\ idx' = idx + 1
                  /\ UNCHANGED pc
  /\ UNCHANGED fnvars
  /\ UNCHANGED <<prog, file, output_dir, verbose, simulate, file_lines, urls,
                 metadatas, extractors, invoked, reported, run, learned, saved>>

\* MainExtractorOf with a slip: the alias table is not read
MainExtractorOf_IdOnly(aliased, metadata) ==
  MetadataId(metadata.extractor)

\* the profile key paired with each Metadata when the loop is over
MainExtractorOf(aliased, metadata) ==
  LET mid == MetadataId(metadata.extractor)
  IN IF mid \in DOMAIN aliased THEN aliased[mid] ELSE mid

MainGetExtractorsEnd ==
  /\ prog = "main" /\ pc = "resolve" /\ idx > Len(metadatas)
  /\ extractors' = [i \in 1..Len(metadatas) |->
                      MainExtractorOf(aliased_extractors, metadatas[i])]
  /\ pc' = "save"
  /\ UNCHANGED fnvars
  /\ UNCHANGED <<prog, file, output_dir, verbose, simulate, file_lines, urls,
                 extractor_configs, aliased_extractors, metadatas, prompts,
                 invoked, reported, idx, run, learned, saved>>

\* the (extractor id, profile) pairs the operator confirmed in this run;
\* learned collects those of the earlier runs that reached save()
Confirmed ==
  UNION { { <<MetadataId(metadatas[i].extractor), prompts[i][k].cand>> :
              k \in { n \in 1..Len(prompts[i]) : prompts[i][n].confirm } } :
          i \in 1..Len(prompts) }

\* Cli.main, line 257: config.save()
MainSaveStep ==
  /\ prog = "main" /\ pc = "save"
  /\ file' = MainSave(file, extractor_configs)
  /\ saved' = saved + 1
  /\ pc' = IF metadatas = <<>> THEN "done" ELSE "report"
  /\ idx' = 1
  /\ UNCHANGED fnvars
  /\ UNCHANGED <<prog, output_dir, verbose, simulate, file_lines, urls,
                 extractor_configs, aliased_extractors, metadatas, extractors,
                 prompts, invoked, reported, run, learned>>

(***************************************************************************)
(* main.py: Cli.download and the reporting loop of Cli.main                *)
(***************************************************************************)
\* cmd after the uv launcher and the path of the engine, as it stands after
\* line 248
MainCompose(configs, doc, metadata, extractor_id) ==
  doc.global
  \o (IF extractor_id = Default THEN doc.default ELSE DictGet(configs, extractor_id).args)
  \o metadata.options

\* the arguments the engine is run with
MainEngineArgs(composed, metadata, v) ==
  composed \o (IF v THEN <<DashV>> ELSE <<>>) \o <<metadata.url>>

MainReport ==
  /\ prog = "main" /\ pc = "report" /\ idx <= Len(metadatas)
  /\ LET metadata == metadatas[idx]
         extractor_id == extractors[idx]
     IN IF Truthy(metadata.error)
        THEN /\ reported' = Append(reported, [rec |-> idx, kind |-> "error", text |-> metadata.error])
             /\ pc' = IF idx = Len(metadatas) THEN "done" ELSE "report"
             /\ idx' = idx + 1
             /\ UNCHANGED invoked
        ELSE /\ reported' = Append(reported, [rec |-> idx, kind |-> "downloading", text |-> metadata.url])
             /\ IF extractor_id # Default /\ ~DictHas(extractor_configs, extractor_id)
                THEN \* extractor_configs[extractor_id]: KeyError
                     /\ pc' = "crashed"
                     /\ UNCHANGED <<invoked, idx>>
                ELSE LET composed == MainCompose(extractor_configs, file, metadata, extractor_id)
                     IN /\ invoked' = Append(invoked,
                              [rec |-> idx, profile |-> extractor_id, composed |-> composed,
                               args |-> MainEngineArgs(composed, metadata, verbose)])
                        /\ pc' = IF idx = Len(metadatas) THEN "done" ELSE "report"
                        /\ idx' = idx + 1
  /\ UNCHANGED fnvars
  /\ UNCHANGED <<prog, file, output_dir, verbose, simulate, file_lines, urls,
                 extractor_configs, aliased_extractors, metadatas, extractors,
                 prompts, run, learned, saved>>

(***************************************************************************)
(* cli.py: Cli.create_metadatas, one entry of the loop                     *)
(***************************************************************************)
\* the entries of Cli.run in the order they are handled: the stripped lines
\* of the input file, then the direct arguments
Entries ==
  [i \in 1..Len(file_lines) |-> [entry |-> Strip(file_lines[i]), src |-> "file"]]
  \o [i \in 1..Len(urls) |-> [entry |-> urls[i], src |-> "cli"]]

CliMetadata(url, src, args, extractor, config_extractor) ==
  [url |-> url, src |-> src, options |-> CliPostInit(args),
   extractor |-> extractor, error |-> None]

\* CliResolve without the elif of lines 164-165: the alias table is not read
CliResolve_SkipAlias(configs, aliased, mid, answers) ==
  IF DictHas(configs, mid)
  THEN [LoopStart(configs, aliased) EXCEPT !.chosen = mid]
  ELSE find_the_next_best_thing(configs, aliased, mid, answers)

\* lines 162-167: exact id, else alias, else the substring loop
CliResolve(configs, aliased, mid, answers) ==
  IF DictHas(configs, mid)
  THEN [LoopStart(configs, aliased) EXCEPT !.chosen = mid]
  ELSE IF mid \in DOMAIN aliased
  THEN [LoopStart(configs, aliased) EXCEPT !.chosen = aliased[mid]]
  ELSE find_the_next_best_thing(configs, aliased, mid, answers)

CliCreateMetadata ==
  /\ prog = "cli" /\ pc = "start" /\ idx <= Len(Entries)
  /\ LET entry == Entries[idx].entry
         parts == Split(entry)
     IN IF entry = <<>> \/ StartsWith(entry, <<"#">>)
        THEN /\ idx' = idx + 1
             /\ UNCHANGED <<extractor_configs, aliased_extractors, metadatas,
                            extractors, prompts, pc>>
        ELSE IF parts = <<>>
        THEN \* parts[-1] of an empty list: IndexError
             /\ pc' = "crashed"
             /\ UNCHANGED <<extractor_configs, aliased_extractors, metadatas,
                            extractors, prompts, idx>>
        ELSE LET url == parts[Len(parts)]
                 args == SubSeq(parts, 1, Len(parts) - 1)
                 extractor == determine_extractor(url)
                 metadata == CliMetadata(url, Entries[idx].src, args, extractor, None)
                 mid == MetadataId(extractor)
             IN IF /\ mid = None
                   /\ extractor_configs # <<>>
                THEN \* "extractor in metadata.id" with metadata.id None: TypeError
                     /\ pc' = "crashed"
                     /\ UNCHANGED <<extractor_configs, aliased_extractors, metadatas,
                                    extractors, prompts, idx>>
                ELSE \E answers \in [1..Len(extractor_configs) -> BOOLEAN] :
                       LET st == CliResolve(extractor_configs, aliased_extractors, mid, answers)
                       IN /\ extractor_configs' = st.configs
                          /\ aliased_extractors' = st.aliased
                          /\ metadatas' = Append(metadatas, metadata)
                          /\ extractors' = Append(extractors, st.chosen)
                          /\ prompts' = Append(prompts, st.offered)
                          /\ idx' = idx + 1
                          /\ UNCHANGED pc
  /\ UNCHANGED fnvars
  /\ UNCHANGED <<prog, file, output_dir, verbose, simulate, file_lines, urls,
                 invoked, reported, run, learned, saved>>

\* Cli.run, lines 226-229: nothing to do without a Metadata, else save
CliSaveStep ==
  /\ prog = "cli" /\ pc = "start" /\ idx > Len(Entries)
  /\ IF metadatas = <<>>
     THEN /\ pc' = "done"
          /\ UNCHANGED <<file, saved>>
     ELSE LET out == CliSave(file, extractor_configs)
          IN IF out.ok
             THEN /\ file' = out.doc
                  /\ saved' = saved + 1
                  /\ pc' = "process"
             ELSE /\ pc' = "crashed"
                  /\ UNCHANGED <<file, saved>>
  /\ idx' = 1
  /\ UNCHANGED fnvars
  /\ UNCHANGED <<prog, output_dir, verbose, simulate, file_lines, urls,
                 extractor_configs, aliased_extractors, metadatas, extractors,
                 prompts, invoked, reported, run, learned>>

(***************************************************************************)
(* cli.py: Cli.process                                                     *)
(***************************************************************************)
\* CliCompose with a slip: --paths appended after the profile's args
CliCompose_PathsLate(configs, doc, out_dir, metadata, config_extractor) ==
  doc.global
  \o (IF config_extractor = None THEN doc.default
      ELSE DictGet(configs, config_extractor).args)
  \o (IF Truthy(out_dir) THEN <<Paths, out_dir>> ELSE <<>>)
  \o metadata.options

\* args as it stands after line 180
CliCompose(configs, doc, out_dir, metadata, config_extractor) ==
  doc.global
  \o (IF Truthy(out_dir) THEN <<Paths, out_dir>> ELSE <<>>)
  \o (IF config_extractor = None THEN doc.default
      ELSE DictGet(configs, config_extractor).args)
  \o metadata.options

\* lines 181-185: the arguments handed to the option parser of the engine
CliEngineArgs(composed, v, s) ==
  sanitize_args(composed, RESTRICTED_ARGS)
  \o (IF v THEN <<DashV>> ELSE <<>>)
  \o (IF s THEN <<Simulate>> ELSE <<>>)

CliProcess ==
  /\ prog = "cli" /\ pc = "process" /\ idx <= Len(metadatas)
  /\ LET metadata == metadatas[idx]
         composed == CliCompose(extractor_configs, file, output_dir, metadata, extractors[idx])
     IN /\ reported' = Append(reported, [rec |-> idx, kind |-> "processing", text |-> metadata.url])
        /\ invoked' = Append(invoked,
              [rec |-> idx, profile |-> extractors[idx], composed |-> composed,
               args |-> CliEngineArgs(composed, verbose, simulate)])
  /\ pc' = IF idx = Len(metadatas) THEN "done" ELSE "process"
  /\ idx' = idx + 1
  /\ UNCHANGED fnvars
  /\ UNCHANGED <<prog, file, output_dir, verbose, simulate, file_lines, urls,
                 extractor_configs, aliased_extractors, metadatas, extractors,
                 prompts, run, learned, saved>>

(***************************************************************************)
(* The process ends, and with it everything but config.toml; the next      *)
(* invocation of the program starts from the config.toml the last left     *)
(***************************************************************************)
Exit ==
  /\ pc \in {"done", "crashed"}
  /\ run < MaxRuns
  /\ pc' = "exited"
  /\ file_lines' = <<>>
  /\ urls' = <<>>
  /\ extractor_configs' = <<>>
  /\ aliased_extractors' = EmptyMap
  /\ metadatas' = <<>>
  /\ extractors' = <<>>
  /\ prompts' = <<>>
  /\ invoked' = <<>>
  /\ reported' = <<>>
  /\ idx' = 1
  /\ saved' = 0
  /\ learned' = IF saved > 0 THEN learned \cup Confirmed ELSE learned
  /\ UNCHANGED fnvars
  /\ UNCHANGED <<prog, file, output_dir, verbose, simulate, run>>

Restart ==
  /\ pc = "exited"
  /\ run' = run + 1
  /\ \E in \in Inputs : file_lines' = in[1] /\ urls' = in[2]
  /\ extractor_configs' = ConfigInit(file).configs
  /\ aliased_extractors' = ConfigInit(file).aliased
  /\ pc' = "start"
  /\ UNCHANGED fnvars
  /\ UNCHANGED <<prog, file, output_dir, verbose, simulate, metadatas, extractors,
                 prompts, invoked, reported, idx, learned, saved>>

Next ==
  \/ MainGetMetadatas
  \/ MainResolve
  \/ MainGetExtractorsEnd
  \/ MainSaveStep
  \/ MainReport
  \/ CliCreateMetadata
  \/ CliSaveStep
  \/ CliProcess
  \/ Exit
  \/ Restart

Spec == Init /\ [][Next]_vars

(***************************************************************************)
(* The argument functions taken alone: Metadata.__post_init__ of either    *)
(* program and sanitize_args, applied to every token list of at most       *)
(* MaxLen tokens                                                           *)
(***************************************************************************)
ArgPool ==
  { <<"-","a">>,
    <<"-","a",":">>,
    <<"-","a",":","m","3">>,
    <<"-","h">>,
    <<"-","U">>,
    <<"-","f">>,
    <<"v">> }

pipevars == <<prog, file, output_dir, verbose, simulate, file_lines, urls,
              extractor_configs, aliased_extractors, metadatas, extractors,
              prompts, invoked, reported, pc, idx, run, learned, saved>>

InitArgs ==
  /\ fn_in \in SeqsUpTo(ArgPool, MaxLen)
  /\ fn_out = <<>>
  /\ fn_pc = "input"
  /\ prog = "none"
  /\ file = [global |-> <<>>, default |-> <<>>, sections |-> <<>>]
  /\ output_dir = None
  /\ verbose = FALSE
  /\ simulate = FALSE
  /\ file_lines = <<>>
  /\ urls = <<>>
  /\ extractor_configs = <<>>
  /\ aliased_extractors = EmptyMap
  /\ metadatas = <<>>
  /\ extractors = <<>>
  /\ prompts = <<>>
  /\ invoked = <<>>
  /\ reported = <<>>
  /\ pc = "none"
  /\ idx = 1
  /\ run = 1
  /\ learned = {}
  /\ saved = 0

\* Metadata(url, src, options, ...) of main.py
ApplyMainPostInit ==
  /\ fn_pc = "input"
  /\ fn_out' = << MainMetadata(<<"1">>, "arg", fn_in, None, None).options >>
  /\ fn_pc' = "main_post_init"
  /\ UNCHANGED <<fn_in, pipevars>>

\* Metadata(url, src, args, ...) of cli.py
ApplyCliPostInit ==
  /\ fn_pc = "input"
  /\ fn_out' = << CliMetadata(<<"1">>, "cli", fn_in, None, None).options >>
  /\ fn_pc' = "cli_post_init"
  /\ UNCHANGED <<fn_in, pipevars>>

\* sanitize_args(args, RESTRICTED_ARGS)
ApplySanitize ==
  /\ fn_pc = "input"
  /\ fn_out' = << sanitize_args(fn_in, RESTRICTED_ARGS) >>
  /\ fn_pc' = "sanitized"
  /\ UNCHANGED <<fn_in, pipevars>>

\* sanitize_args applied to what sanitize_args returned
ApplySanitizeAgain ==
  /\ fn_pc = "sanitized"
  /\ fn_out' = Append(fn_out, sanitize_args(fn_out[1], RESTRICTED_ARGS))
  /\ fn_pc' = "sanitized_twice"
  /\ UNCHANGED <<fn_in, pipevars>>

NextArgs ==
  \/ ApplyMainPostInit
  \/ ApplyCliPostInit
  \/ ApplySanitize
  \/ ApplySanitizeAgain

SpecArgs == InitArgs /\ [][NextArgs]_vars

(***************************************************************************)
(* cli.py taken from the engine's side: what YoutubeDL does for one Record *)
(* in Cli.process (lines 188-211) and what Cli.run reports of it (lines    *)
(* 240-258).  fn_in is what the engine does: whether extract_info returns  *)
(* an info dict, the hook calls it makes, the files on disk afterwards.    *)
(* fn_out is the Metadata: processed, files, and the report made of them.  *)
(***************************************************************************)
MaxEvents == 2

\* the working directory and os.path.abspath
Cwd == <<"/","d">>

abspath(path) == IF StartsWith(path, <<"/">>) THEN path ELSE Cwd \o <<"/">> \o path

\* os.path.exists, given the absolute paths that are on disk
exists(path, on_disk) == abspath(path) \in on_disk

\* ytdl.prepare_filename(metadata.info)
PreparedName == <<"f">>

\* the calls the engine makes to a progress hook ("process") or to a
\* postprocessor hook ("post-process"): filename is data["filename"], None
\* when data has none; moved is the list of keys of
\* data["info_dict"]["__files_to_move"], empty when there is none
EventPool ==
  { [src |-> "process", status |-> "finished", filename |-> <<"f">>, moved |-> <<>>],
    [src |-> "process", status |-> "finished", filename |-> None, moved |-> <<>>],
    [src |-> "process", status |-> "downloading", filename |-> <<"f">>, moved |-> <<>>],
    [src |-> "post-process", status |-> "finished", filename |-> None, moved |-> << <<"/","g">> >>],
    [src |-> "post-process", status |-> "finished", filename |-> None, moved |-> <<>>],
    [src |-> "post-process", status |-> "started", filename |-> None, moved |-> << <<"/","g">> >>] }

DiskPool == { <<"/","d","/","f">>, <<"/","g">> }

Outcomes ==
  { [info |-> i, events |-> e, on_disk |-> d] :
      i \in BOOLEAN, e \in SeqsUpTo(EventPool, MaxEvents), d \in SUBSET DiskPool }

\* metadata.files[file] = src for every file of the list
RECURSIVE DictSetAll(_, _, _)
DictSetAll(d, ks, v) ==
  IF ks = <<>> THEN d ELSE DictSetAll(DictSet(d, Head(ks), v), Tail(ks), v)

\* hook(src, data) of Cli.process
hook(md, data) ==
  LET files == IF data.src = "process" /\ data.filename # None THEN <<data.filename>>
               ELSE IF data.src = "post-process" THEN data.moved
               ELSE <<>>
  IN [md EXCEPT !.processed = TRUE,
                !.files = IF data.status = "finished"
                          THEN DictSetAll(@, files, data.src) ELSE @]

\* CliReportFiles with a slip: a processed Record lists every file on disk,
\* whatever its stage
CliReportFiles_AllStages(md, on_disk) ==
  LET listed == IF md.processed
                THEN SelectSeq(md.files, LAMBDA e : exists(e.key, on_disk))
                ELSE SelectSeq(md.files, LAMBDA e : e.val = "pre-process")
      files  == [i \in 1..Len(listed) |-> abspath(listed[i].key)]
  IN IF files # <<>>
     THEN [kind |-> IF md.processed THEN "downloaded" ELSE "potential", files |-> files]
     ELSE [kind |-> "no files", files |-> <<>>]

\* Cli.run, lines 240-258: what is echoed for the Record
CliReportFiles(md, on_disk) ==
  LET listed == IF md.processed
                THEN SelectSeq(md.files, LAMBDA e :
                       e.val \in {"process", "post-process"} /\ exists(e.key, on_disk))
                ELSE SelectSeq(md.files, LAMBDA e : e.val = "pre-process")
      files  == [i \in 1..Len(listed) |-> abspath(listed[i].key)]
  IN IF files # <<>>
     THEN [kind |-> IF md.processed THEN "downloaded" ELSE "potential", files |-> files]
     ELSE [kind |-> "no files", files |-> <<>>]

InitOutcome ==
  /\ fn_in \in Outcomes
  /\ fn_out = [processed |-> FALSE, files |-> <<>>, next |-> 1, report |-> None]
  /\ fn_pc = "process"
  /\ prog = "cli"
  /\ file = [global |-> <<>>, default |-> <<>>, sections |-> <<>>]
  /\ output_dir = None
  /\ verbose = FALSE
  /\ simulate = FALSE
  /\ file_lines = <<>>
  /\ urls = <<>>
  /\ extractor_configs = <<>>
  /\ aliased_extractors = EmptyMap
  /\ metadatas = <<>>
  /\ extractors = <<>>
  /\ prompts = <<>>
  /\ invoked = <<>>
  /\ reported = <<>>
  /\ pc = "none"
  /\ idx = 1
  /\ run = 1
  /\ learned = {}
  /\ saved = 0

\* Cli.process, lines 207-211: extract_info, and with an info dict the
\* prepared filename recorded and process_ie_result started
CliExtractInfo ==
  /\ fn_pc = "process"
  /\ IF fn_in.info
     THEN /\ fn_out' = [fn_out EXCEPT !.files = DictSet(@, PreparedName, "pre-process")]
          /\ fn_pc' = "process_ie_result"
     ELSE /\ fn_out' = fn_out
          /\ fn_pc' = "processed"
  /\ UNCHANGED <<fn_in, pipevars>>

\* the engine calls the next hook
CliHook ==
  /\ fn_pc = "process_ie_result"
  /\ fn_out.next <= Len(fn_in.events)
  /\ fn_out' = [hook(fn_out, fn_in.events[fn_out.next]) EXCEPT !.next = @ + 1]
  /\ UNCHANGED <<fn_in, fn_pc, pipevars>>

\* process_ie_result returns
CliProcessReturns ==
  /\ fn_pc = "process_ie_result"
  /\ fn_out.next > Len(fn_in.events)
  /\ fn_pc' = "processed"
  /\ UNCHANGED <<fn_in, fn_out, pipevars>>

\* Cli.run, lines 240-258
CliReportOutcome ==
  /\ fn_pc = "processed"
  /\ fn_out' = [fn_out EXCEPT !.report = CliReportFiles(fn_out, fn_in.on_disk)]
  /\ fn_pc' = "reported"
  /\ UNCHANGED <<fn_in, pipevars>>

NextOutcome ==
  \/ CliExtractInfo
  \/ CliHook
  \/ CliProcessReturns
  \/ CliReportOutcome

SpecOutcome == InitOutcome /\ [][NextOutcome]_vars

(***************************************************************************)
(* Properties                                                              *)
(***************************************************************************)
\* the lowercased extractor id of the i-th Record
Mid(i) == MetadataId(metadatas[i].extractor)

\* a step that resolves Record idx in main.py without failing
MainResolveStep ==
  prog = "main" /\ pc = "resolve" /\ idx <= Len(metadatas) /\ idx' = idx + 1

\* the step of main.py that pairs every Record with its profile key
MainSelectStep == prog = "main" /\ pc = "resolve" /\ pc' = "save"

\* a step of cli.py that builds and resolves one more Record
CliResolveStep == prog = "cli" /\ pc = "start" /\ Len(metadatas') = Len(metadatas) + 1

\* the Record a CliResolveStep adds, and its lowercased extractor id
NewRec == Len(metadatas')

NewMid == MetadataId(metadatas'[NewRec].extractor)

StoreUnchanged == UNCHANGED <<extractor_configs, aliased_extractors>>

\* m is a key of the alias table and not the id of a profile
AliasNotId(m) ==
  m # None /\ m \in DOMAIN aliased_extractors /\ ~DictHas(extractor_configs, m)

\* m is in the alias list of the j-th profile
ListedAlias(m, j) == InList(m, extractor_configs[j].val.aliases)

C2_ProfileIdFirst ==
  [][ /\ (MainResolveStep /\ DictHas(extractor_configs, Mid(idx)))
           => prompts'[idx] = <<>>
      /\ MainSelectStep
           => \A i \in 1..Len(metadatas) :
                DictHas(extractor_configs, Mid(i)) => extractors'[i] = Mid(i)
      /\ (CliResolveStep /\ DictHas(extractor_configs, NewMid))
           => /\ prompts'[NewRec] = <<>>
              /\ extractors'[NewRec] = NewMid ]_vars

\* the profile ids that are substrings of m, in store order
Candidates(m) == SelectSeq(DictKeys(extractor_configs), LAMBDA k : IsSubstring(k, m))

Persisted(x, w) ==
  \E n \in 1..Len(file.sections) :
    file.sections[n].key = w /\ InList(x, file.sections[n].aliases)

NoCandidate(m) == Candidates(m) = <<>>

\* m is no profile id, no alias, and contains no profile id
NoMatch(m) ==
  /\ m # None
  /\ ~DictHas(extractor_configs, m)
  /\ m \notin DOMAIN aliased_extractors
  /\ NoCandidate(m)

\* NoMatch, as it reads in main.py once the Record has been resolved
NoMatchResolved(m) ==
  /\ m # None
  /\ ~DictHas(extractor_configs, m)
  /\ m \in DOMAIN aliased_extractors => aliased_extractors[m] = Default
  /\ NoCandidate(m)

\* the arguments composed from the default profile
DefaultComposed(i) ==
  file.global
  \o (IF prog = "cli" /\ Truthy(output_dir) THEN <<Paths, output_dir>> ELSE <<>>)
  \o file.default
  \o metadatas[i].options

\* C5 as stated: resolving a Record that matches nothing prompts for nothing
\* and leaves the profiles' alias lists and the alias table as they were.
C5_Original ==
  [][ /\ (MainResolveStep /\ ~Truthy(metadatas[idx].error) /\ NoMatch(Mid(idx)))
           => (prompts'[idx] = <<>> /\ StoreUnchanged)
      /\ (CliResolveStep /\ NoMatch(NewMid))
           => (prompts'[NewRec] = <<>> /\ extractors'[NewRec] = None /\ StoreUnchanged) ]_vars

\* C5 (as amended): resolving a Record that matches nothing prompts for
\* nothing and leaves every profile, alias lists included, as it was; cli.py
\* leaves the alias table as it was and yields None, main.py adds the one
\* entry x -> "default" to the alias table and yields "default"; either way
\* the engine is given the default profile's args.
C5_NoMatchUsesDefault ==
  /\ [][ /\ (MainResolveStep /\ ~Truthy(metadatas[idx].error) /\ NoMatch(Mid(idx)))
              => /\ prompts'[idx] = <<>>
                 /\ extractor_configs' = extractor_configs
                 /\ aliased_extractors' = MapSet(aliased_extractors, Mid(idx), Default)
         /\ MainSelectStep
              => \A i \in 1..Len(metadatas) :
                   (~Truthy(metadatas[i].error) /\ NoMatchResolved(Mid(i)))
                     => extractors'[i] = Default
         /\ (CliResolveStep /\ NoMatch(NewMid))
              => /\ prompts'[NewRec] = <<>>
                 /\ extractors'[NewRec] = None
                 /\ StoreUnchanged ]_vars
  /\ [](\A n \in 1..Len(invoked) :
          NoMatchResolved(Mid(invoked[n].rec))
            => /\ invoked[n].profile \in {None, Default}
               /\ invoked[n].composed = DefaultComposed(invoked[n].rec))

\* the engine was run for a Record that matched nothing, with the default args
C5_Witness ==
  \E n \in 1..Len(invoked) :
    /\ NoMatchResolved(Mid(invoked[n].rec))
    /\ extractor_configs # <<>>
    /\ prompts[invoked[n].rec] = <<>>
    /\ invoked[n].composed = DefaultComposed(invoked[n].rec)

\* what the engine printed for the url of the i-th Record
OutputOf(i) == EngineOutput(metadatas[i].url)

\* an error without an extractor tag: "ERROR: " and then no "["
PlainError(output) ==
  StartsWith(output, ErrorPrefix) /\ Len(output) > 7 /\ output[8] # "["

\* an error with an extractor tag: "ERROR: [" and a "]" further on
TaggedError(output) ==
  /\ StartsWith(output, ErrorPrefix) /\ Len(output) > 7 /\ output[8] = "["
  /\ \E r \in 9..Len(output) : output[r] = "]"

ReportsOf(i) == SelectSeq(reported, LAMBDA r : r.rec = i)

InvocationsOf(i) == SelectSeq(invoked, LAMBDA e : e.rec = i)

\* C6 as stated: main.py never runs the engine for a Record whose
\* classification output begins with ERROR.
C6_Original ==
  prog = "main" =>
    \A i \in 1..Len(metadatas) :
      StartsWith(OutputOf(i), ErrorPrefix) => InvocationsOf(i) = <<>>

\* C6 (as amended): in main.py a Record whose classification output is
\* "ERROR: " followed by text that does not begin with "[" carries that text
\* as its error and no extractor, is never prompted for, leaves the store as
\* it was, is reported with the error text and is never given
\* to the engine.  An output "ERROR: [tag] ..." makes a Record without error
\* whose extractor is a tag: it is resolved and downloaded like any other.
C6_PlainErrorReported ==
  /\ [](prog = "main" =>
          \A i \in 1..Len(metadatas) :
            /\ PlainError(OutputOf(i)) =>
                 /\ metadatas[i].error = SliceFrom(OutputOf(i), 7)
                 /\ metadatas[i].extractor = None
                 /\ prompts[i] = <<>>
                 /\ InvocationsOf(i) = <<>>
                 /\ \A n \in 1..Len(ReportsOf(i)) :
                      /\ ReportsOf(i)[n].kind = "error"
                      /\ ReportsOf(i)[n].text = SliceFrom(OutputOf(i), 7)
                 /\ pc = "done" => Len(ReportsOf(i)) = 1
            /\ TaggedError(OutputOf(i)) =>
                 /\ metadatas[i].error = None
                 /\ Truthy(metadatas[i].extractor)
                 /\ IsSubstring(<<"[">> \o metadatas[i].extractor \o <<"]">>, OutputOf(i))
                 /\ pc = "done" => Len(InvocationsOf(i)) = 1)
  /\ [][(MainResolveStep /\ PlainError(OutputOf(idx))) => StoreUnchanged]_vars

\* main.py finished a run in which a Record was reported with its error
C6_Witness ==
  /\ prog = "main" /\ pc = "done"
  /\ extractor_configs # <<>>
  /\ \E i \in 1..Len(metadatas) :
       /\ PlainError(OutputOf(i))
       /\ Len(ReportsOf(i)) = 1
       /\ ReportsOf(i)[1].text = <<"m">>
       /\ InvocationsOf(i) = <<>>

\* the args of the profile an invocation was made with
ProfileArgsOf(profile) ==
  IF profile \in {None, Default} THEN file.default
  ELSE DictGet(extractor_configs, profile).args

\* C7 as stated: what is composed for the engine is global.args, then the
\* args of the resolved profile or of default, then the per-URL args, and
\* nothing else.
C7_Original ==
  \A n \in 1..Len(invoked) :
    invoked[n].composed =
      file.global \o ProfileArgsOf(invoked[n].profile) \o metadatas[invoked[n].rec].options

\* C7 (as amended): main.py composes global.args, then the args of the
\* resolved profile or of default, then the per-URL args; cli.py composes the
\* same, with the two tokens --paths <output_dir> between global.args and the
\* profile's args when an output directory is configured.
C7_ComposeOrder ==
  \A n \in 1..Len(invoked) :
    invoked[n].composed =
      file.global
      \o (IF prog = "cli" /\ Truthy(output_dir) THEN <<Paths, output_dir>> ELSE <<>>)
      \o ProfileArgsOf(invoked[n].profile)
      \o metadatas[invoked[n].rec].options

\* cli.py composed the arguments of a named profile with an output directory
\* and per-URL args
C7_Witness ==
  \E n \in 1..Len(invoked) :
    /\ prog = "cli" /\ Truthy(output_dir)
    /\ invoked[n].profile \notin {None, Default}
    /\ metadatas[invoked[n].rec].options # <<>>
    /\ invoked[n].composed[2] = Paths

\* C8: no restricted flag among a Record's per-URL args is among the arguments
\* the engine is run with for that Record.
C8_RestrictedDropped ==
  \A n \in 1..Len(invoked) :
    \A k \in 1..Len(metadatas[invoked[n].rec].options) :
      LET opt == metadatas[invoked[n].rec].options[k]
      IN InList(opt, RESTRICTED_ARGS) => ~InList(opt, invoked[n].args)

\* C9: sanitize_args applied to its own result returns that result.
C9_SanitizeIdempotent ==
  fn_pc = "sanitized_twice" => fn_out[2] = fn_out[1]

\* a list that lost tokens in the first pass went through the second
C9_Witness ==
  /\ fn_pc = "sanitized_twice"
  /\ fn_out[1] # fn_in
  /\ fn_out[1] # <<>>
  /\ fn_out[2] = fn_out[1]

\* what C10 says one shorthand token becomes
ShorthandRewrite(token) ==
  IF token = DashA THEN <<ExtractAudio>>
  ELSE IF SliceFrom(token, 3) = <<>> THEN <<ExtractAudio>>
  ELSE <<ExtractAudio, AudioFormat, SliceFrom(token, 3)>>

PostInitOf(which, tokens) ==
  IF which = "main_post_init" THEN MainPostInit(tokens) ELSE CliPostInit(tokens)

\* C10: in the options of a Record, each token -a or -a:<fmt> of the line
\* stands rewritten, in its place, as --extract-audio, followed by
\* --audio-format <fmt> when fmt is not empty.
C10_AudioShorthand ==
  fn_pc \in {"main_post_init", "cli_post_init"} =>
    \A k \in 1..Len(fn_in) :
      (fn_in[k] = DashA \/ StartsWith(fn_in[k], DashAColon)) =>
        fn_out[1] = PostInitOf(fn_pc, SubSeq(fn_in, 1, k - 1))
                    \o ShorthandRewrite(fn_in[k])
                    \o PostInitOf(fn_pc, SubSeq(fn_in, k + 1, Len(fn_in)))

\* the three forms of the shorthand went through cli.py's Metadata together
C10_Witness ==
  /\ fn_pc = "cli_post_init"
  /\ fn_in = <<DashA, DashAColon, <<"-","a",":","m","3">> >>
  /\ fn_out[1] = <<ExtractAudio, ExtractAudio, ExtractAudio, AudioFormat, <<"m","3">> >>

\* the lines of a run in the order they are read: the stripped lines of the
\* input file, then the direct arguments as given
InputLines == [i \in 1..Len(Entries) |-> Entries[i].entry]

\* empty or whitespace-only
Blank(line) == Split(line) = <<>>

Comment(line) == StartsWith(line, <<"#">>)

Surviving(lines) == SelectSeq(lines, LAMBDA l : ~Blank(l) /\ ~Comment(l))

LastToken(line) == Split(line)[Len(Split(line))]

LeadingTokens(line) == SubSeq(Split(line), 1, Len(Split(line)) - 1)

UrlsOf(mds) == [i \in 1..Len(mds) |-> mds[i].url]

\* C11: a blank line (empty or whitespace-only) and a line that starts with #
\* make no Record and no failure, from the file as from the command line;
\* every other line makes exactly one Record, whose url is its last token.
C11_LinesToRecords ==
  [][ /\ (prog = "main" /\ pc = "start")
           => /\ pc' = "resolve"
              /\ UrlsOf(metadatas') =
                   [i \in 1..Len(Surviving(InputLines)) |-> LastToken(Surviving(InputLines)[i])]
      /\ (prog = "cli" /\ pc = "start" /\ idx <= Len(Entries))
           => IF Blank(InputLines[idx]) \/ Comment(InputLines[idx])
              THEN pc' # "crashed" /\ metadatas' = metadatas
              ELSE pc' # "crashed"
                     => /\ Len(metadatas') = Len(metadatas) + 1
                        /\ metadatas'[Len(metadatas')].url = LastToken(InputLines[idx]) ]_vars

\* the Records one create_metadatas call would build taking the lines one at
\* a time: each with the leading tokens of its own line
OneAtATime(lines, src) ==
  [i \in 1..Len(Surviving(lines)) |->
     LET line == Surviving(lines)[i]
         res  == ParseOutput(EngineOutput(LastToken(line)))
     IN MainMetadata(LastToken(line), src, LeadingTokens(line), res.extractor, res.error)]

\* C12: the Records main.py builds from the gathered classifications are the
\* Records built one line at a time: in line order, each with the per-URL
\* args of its own line, also when a url stands on several lines.
C12_BatchedEqualsSequential ==
  [][ (prog = "main" /\ pc = "start" /\ pc' = "resolve")
        => metadatas' = OneAtATime(StripAll(file_lines), "file") \o OneAtATime(urls, "arg") ]_vars

\* C13: no run of main.py ends with a Record that was neither reported with
\* its error nor given to the engine: when the run is over every Record with
\* an error has been reported once and not downloaded, every other Record has
\* been given to the engine once, in input order.
C13_EveryRecordHandled ==
  (prog = "main" /\ pc \in {"done", "crashed"}) =>
    /\ \A i \in 1..Len(metadatas) :
         IF Truthy(metadatas[i].error)
         THEN Len(ReportsOf(i)) = 1 /\ InvocationsOf(i) = <<>>
         ELSE Len(ReportsOf(i)) = 1 /\ Len(InvocationsOf(i)) = 1
    /\ \A n \in 1..Len(reported) : reported[n].rec = n

\* the number of Records the lines of the run make
RecordCount == Len(Surviving(InputLines))

\* C14: a Record is resolved only when every Record of the run has been
\* classified (main.py: every Record built; cli.py: none left to build once
\* this one is), and the engine is run only when every Record is resolved.
C14_PhasesOrdered ==
  [][ /\ MainResolveStep => Len(metadatas) = RecordCount
      /\ CliResolveStep => Len(metadatas') = RecordCount
      /\ invoked' # invoked
           => (Len(metadatas) = RecordCount /\ Len(extractors) = RecordCount) ]_vars

\* C15: a run that is over has saved the store exactly once, a run that has
\* run the engine had saved it before, and the store is as it was saved.
C15_SavedOnce ==
  /\ saved <= 1
  /\ pc = "done" => saved = 1
  /\ invoked # <<>> => saved = 1
  /\ (saved = 1 /\ prog = "main") => file = MainSave(file, extractor_configs)
  /\ (saved = 1 /\ prog = "cli") => file = CliSave(file, extractor_configs).doc

\* the Record has no classification error and no extractor id
AbsentId(metadata) == ~Truthy(metadata.error) /\ MetadataId(metadata.extractor) = None

\* C16: a Record without error and without extractor id is passed over by
\* the resolution: the step does not fail, prompts for nothing, leaves every
\* profile as it was and leaves the Record to the default profile.
C16_AbsentIdSkipped ==
  [][ /\ (prog = "main" /\ pc = "resolve" /\ idx <= Len(metadatas) /\ AbsentId(metadatas[idx]))
           => /\ pc' = "resolve"
              /\ idx' = idx + 1
              /\ prompts'[idx] = <<>>
              /\ extractor_configs' = extractor_configs
      /\ MainSelectStep
           => \A i \in 1..Len(metadatas) :
                AbsentId(metadatas[i]) => extractors'[i] \in {None, Default}
      /\ (/\ prog = "cli" /\ pc = "start" /\ idx <= Len(Entries)
          /\ ~Blank(InputLines[idx]) /\ ~Comment(InputLines[idx])
          /\ determine_extractor(LastToken(InputLines[idx])) = None)
           => /\ pc' = "start"
              /\ Len(metadatas') = Len(metadatas) + 1
              /\ prompts'[NewRec] = <<>>
              /\ extractors'[NewRec] = None
              /\ StoreUnchanged ]_vars

IsFlag(token) == StartsWith(token, <<"-">>)

\* the position of the last token at or before i that begins with "-", or 0
PrevFlag(tokens, i) ==
  IF \E j \in 1..i : IsFlag(tokens[j])
  THEN CHOOSE j \in 1..i : IsFlag(tokens[j]) /\ \A k \in (j + 1)..i : ~IsFlag(tokens[k])
  ELSE 0

\* token i is a restricted flag, or follows one with no flag in between
Removed(tokens, i) ==
  PrevFlag(tokens, i) > 0 /\ InList(tokens[PrevFlag(tokens, i)], RESTRICTED_ARGS)

RECURSIVE Kept(_, _)
Kept(tokens, i) ==
  IF i > Len(tokens) THEN <<>>
  ELSE (IF Removed(tokens, i) THEN <<>> ELSE <<tokens[i]>>) \o Kept(tokens, i + 1)

\* C17: sanitize_args returns its input without the restricted flags and
\* without the tokens that follow a restricted flag up to the next token
\* that begins with "-"; every other token is kept, in order; no token of
\* the result is in the restricted table.
C17_SanitizeRemoves ==
  fn_pc = "sanitized" =>
    /\ fn_out[1] = Kept(fn_in, 1)
    /\ \A k \in 1..Len(fn_out[1]) : ~InList(fn_out[1][k], RESTRICTED_ARGS)

\* a restricted flag went with its value, the flag after it stayed
C17_Witness ==
  /\ fn_pc = "sanitized"
  /\ fn_in = << <<"-","h">>, <<"v">>, <<"-","f">> >>
  /\ fn_out[1] = << <<"-","f">> >>

\* the leading tokens of the line the i-th Record was made from
PerUrlTokens(i) == LeadingTokens(Surviving(InputLines)[i])

\* the per-URL tokens that are no shorthand, no restricted flag and no value
\* of one
Survivors(tokens) == SelectSeq(Kept(tokens, 1), LAMBDA t : ~IsAudioShorthand(t))

\* a is b with tokens left out
RECURSIVE IsSubsequence(_, _)
IsSubsequence(a, b) ==
  IF a = <<>> THEN TRUE
  ELSE IF b = <<>> THEN FALSE
  ELSE IF Head(a) = Head(b) THEN IsSubsequence(Tail(a), Tail(b))
  ELSE IsSubsequence(a, Tail(b))

\* C18: the per-URL tokens of a Record's line that are neither the audio
\* shorthand nor a restricted flag nor the value of one are among the
\* arguments the engine is run with for that Record, each occurrence, in
\* their order.
C18_PerUrlTokensReachEngine ==
  \A n \in 1..Len(invoked) :
    IsSubsequence(Survivors(PerUrlTokens(invoked[n].rec)), invoked[n].args)

\* C19: no key of the alias table and no member of a profile's alias list is
\* the id of a profile.
C19_AliasNeverId ==
  /\ \A a \in DOMAIN aliased_extractors : ~DictHas(extractor_configs, a)
  /\ \A j \in 1..Len(extractor_configs) :
       \A k \in 1..Len(extractor_configs[j].val.aliases) :
         ~DictHas(extractor_configs, extractor_configs[j].val.aliases[k])

\* C20: the first candidate offered for a Record is the first profile id, in
\* store order, that is a substring of the Record's lowercased extractor id,
\* and every candidate offered is a substring of it.
C20_FirstSubstringOffered ==
  \A i \in 1..Len(prompts) :
    prompts[i] # <<>> =>
      /\ Candidates(Mid(i)) # <<>>
      /\ prompts[i][1].cand = Candidates(Mid(i))[1]
      /\ \A k \in 1..Len(prompts[i]) : IsSubstring(prompts[i][k].cand, Mid(i))

\* the first profile of the store is no substring of the extractor id and
\* was not offered; the second one is and was
C20_Witness ==
  \E i \in 1..Len(prompts) :
    /\ prompts[i] # <<>>
    /\ Len(extractor_configs) = 2
    /\ ~IsSubstring(extractor_configs[1].key, Mid(i))
    /\ prompts[i][1].cand = extractor_configs[2].key

\* a progress or postprocessor hook was called for the Record
HookFired == fn_in.info /\ fn_in.events # <<>>

\* the engine reported path finished, at stage process or post-process
RecordedByHook(path) ==
  /\ fn_in.info
  /\ \E k \in 1..Len(fn_in.events) :
       LET data == fn_in.events[k]
       IN /\ data.status = "finished"
          /\ \/ data.src = "process" /\ data.filename = path
             \/ data.src = "post-process" /\ InList(path, data.moved)

\* every path the engine names
PathsNamed ==
  {PreparedName}
  \cup { fn_in.events[k].filename : k \in 1..Len(fn_in.events) }
  \cup UNION { { fn_in.events[k].moved[n] : n \in 1..Len(fn_in.events[k].moved) } :
               k \in 1..Len(fn_in.events) }

ListedFiles == { fn_out.report.files[n] : n \in 1..Len(fn_out.report.files) }

\* C21: what cli.py reports of an engine run is one of three.  When a hook
\* fired: the files recorded at stage process or post-process that are on
\* disk, as downloaded.  When none fired: the file recorded at stage
\* pre-process, as potential.  When the list is empty: no files found.  A
\* file recorded at stage pre-process only is never reported as downloaded.
C21_OutcomeReported ==
  fn_pc = "reported" =>
    LET report == fn_out.report
    IN /\ report.kind \in {"downloaded", "potential", "no files"}
       /\ Cardinality(ListedFiles) = Len(report.files)
       /\ HookFired =>
            /\ ListedFiles = { abspath(p) : p \in { q \in PathsNamed \ {None} :
                                 RecordedByHook(q) /\ abspath(q) \in fn_in.on_disk } }
            /\ report.kind = IF ListedFiles = {} THEN "no files" ELSE "downloaded"
       /\ ~HookFired =>
            /\ ListedFiles = IF fn_in.info THEN {abspath(PreparedName)} ELSE {}
            /\ report.kind = IF ListedFiles = {} THEN "no files" ELSE "potential"
       /\ report.kind = "downloaded" =>
            \A p \in PathsNamed \ {None} :
              abspath(p) \in ListedFiles => RecordedByHook(p)
       /\ report.kind = "no files" <=> report.files = <<>>

\* a postprocessor hook reported /g finished; /g and the prepared file f are
\* both on disk, f at stage pre-process: /g alone is reported as downloaded
C21_Witness ==
  /\ fn_pc = "reported"
  /\ fn_out.processed
  /\ fn_in.on_disk = DiskPool
  /\ ~RecordedByHook(PreparedName)
  /\ fn_out.report = [kind |-> "downloaded", files |-> << <<"/","g">> >>]

\* the i-th Record has no error and has an extractor id
Classified(i) == ~Truthy(metadatas[i].error) /\ Mid(i) # None

\* C22: when main.py's get_extractors returns, every Record without error
\* and with an extractor id is paired with "default" or with a key of
\* extractor_configs, and the lookup of the profile in download never fails.
C22_PairedProfileExists ==
  [][ /\ MainSelectStep
           => \A i \in 1..Len(metadatas) :
                Classified(i)
                  => \/ extractors'[i] = Default
                     \/ DictHas(extractor_configs, extractors'[i])
      /\ (prog = "main" /\ pc = "report") => pc' # "crashed" ]_vars

\* main.py downloaded one Record with a profile found through the alias
\* table and one with the default profile
C22_Witness ==
  /\ prog = "main" /\ pc = "done"
  /\ \E n, k \in 1..Len(invoked) :
       /\ DictHas(extractor_configs, invoked[n].profile)
       /\ invoked[n].profile # Mid(invoked[n].rec)
       /\ invoked[k].profile = Default
       /\ Classified(invoked[k].rec)

\* C23: in a run of main.py a Record whose extractor id an earlier Record of
\* the run had is not prompted for and is paired with the same profile as
\* that earlier Record; an id the alias table maps to "default" is in no
\* profile's alias list and in no alias list of config.toml.
C23_SameIdResolvedOnce ==
  prog = "main" =>
    /\ \A i, j \in 1..Len(metadatas) :
         (i < j /\ Classified(i) /\ Classified(j) /\ Mid(i) = Mid(j))
           => /\ prompts[j] = <<>>
              /\ j <= Len(extractors) => extractors[i] = extractors[j]
    /\ \A x \in DOMAIN aliased_extractors :
         aliased_extractors[x] = Default
           => /\ \A k \in 1..Len(extractor_configs) : ~ListedAlias(x, k)
              /\ \A n \in 1..Len(file.sections) : ~InList(x, file.sections[n].aliases)

\* the operator declined for the first of two Records with the same
\* extractor id; the second was not prompted for, both went to the default
\* profile, and save() has run
C23_Witness ==
  /\ prog = "main" /\ pc = "done" /\ saved = 1
  /\ Len(metadatas) = 2
  /\ Classified(1) /\ Classified(2) /\ Mid(1) = Mid(2)
  /\ prompts[1] # <<>>
  /\ \A k \in 1..Len(prompts[1]) : ~prompts[1][k].confirm
  /\ prompts[2] = <<>>
  /\ extractors = <<Default, Default>>
  /\ Len(invoked) = 2

====
